---- MODULE Spec2Model ----
(***************************************************************************)
(* A model of examples/monitoring_demo.py: the main thread of main() and   *)
(* MonitoringDemo.run_demo (precheck, dashboard start, four load phases,   *)
(* shutdown) and the daemon thread running display_metrics_dashboard.      *)
(*                                                                         *)
(* Time is counted in tenths of a second (the smallest delay of the code   *)
(* is time.sleep(0.1)).  Only the load phases read the clock, and only as  *)
(* time.time() - start_time: the model keeps that difference.  The locals  *)
(* of a generate_* call (its elapsed time, its iteration count) are zeroed *)
(* when the call's frame is left.                                          *)
(***************************************************************************)
EXTENDS Integers, Sequences, FiniteSets, TLC

VARIABLES
    running,        \* MonitoringDemo.running
    mpc,            \* position of the main thread
    phase,          \* which call of run_demo's sequence is active (0: none yet)
    elapsed,        \* time.time() - start_time of the active generate_* call
    iter,           \* iterations begun by the active phase loop
    pendingExc,     \* a KeyboardInterrupt is propagating through run_demo's finally
    precheck,       \* outcome of main's liveness precheck
    dpc,            \* position of the dashboard thread
    phaseLog,       \* the generate_* calls made so far, in order
    lastSub,        \* phase of the latest write submission (0: none)
    nInt,           \* interrupts delivered so far
    lastInt,        \* where the latest interrupt found the main thread
    writes,         \* assignments to self.running after __init__
    ticksAfterStop, \* dashboard ticks begun while running was already false
    lastCall,       \* how the latest write call of the main thread ended
    lastFetch,      \* how the latest fetch of the dashboard thread ended
    req,            \* the request being sent by the main thread (NoReq: none)
    posts,          \* requests.post calls made by the active generate_* loop body
    records,        \* log records built by the active generate_* call
    iterStart,      \* elapsed when the current iteration began
    seconds,        \* argument of format_uptime
    uptime,         \* what format_uptime returned (NoUptime: not called)
    fetched,        \* fetches issued so far in the current dashboard tick, in order
    alerts,         \* display_metrics_dashboard's local `alerts` (ids of the alerts)
    out             \* lines printed so far by the current dashboard tick

vars == <<running, mpc, phase, elapsed, iter, pendingExc, precheck, dpc,
          phaseLog, lastSub, nInt, lastInt, writes, ticksAfterStop, lastCall,
          lastFetch, req, posts, records, iterStart, seconds, uptime, fetched,
          alerts, out>>

----------------------------------------------------------------------------
(* Bounds of the model.  run_demo passes 60 s, 30 s, 10 queries and 30 s;  *)
(* the model runs the same sequence with shorter phases.                   *)

Phase1Duration == 20    \* generate_normal_load(60): 600 tenths in the code
Phase2Duration == 3     \* generate_high_load(30): 300 tenths in the code
Phase3Count == 2        \* generate_slow_queries(10)
Phase4Duration == 10    \* generate_normal_load(30): 300 tenths in the code
MaxLatency == 1         \* longest round trip of a write call, in tenths
MaxInterrupts == 2      \* Ctrl+C presses considered in one run
MaxAlerts == 6          \* longest list get_alerts returns
MaxDays == 2            \* format_uptime is applied to up to this many whole days

(* Program constants: the inter-iteration delays, in tenths of a second.   *)
NormalSleep == 10       \* time.sleep(1)
HighSleep == 1          \* time.sleep(0.1)
SlowSleep == 5          \* time.sleep(0.5)

----------------------------------------------------------------------------
(* run_demo's phase sequence.                                              *)

NumPhases == 4

(* Mutant of PhaseKind: the high-load and slow-query calls in the other    *)
(* order.                                                                  *)
PhaseKindSwapped(p) ==
    CASE p = 1 -> "normal"
      [] p = 2 -> "slow"
      [] p = 3 -> "high"
      [] p = 4 -> "normal"
      [] OTHER -> "none"

PhaseKind(p) ==
    CASE p = 1 -> "normal"
      [] p = 2 -> "high"
      [] p = 3 -> "slow"
      [] p = 4 -> "normal"
      [] OTHER -> "none"

PhaseArg(p) ==
    CASE p = 1 -> Phase1Duration
      [] p = 2 -> Phase2Duration
      [] p = 3 -> Phase3Count
      [] p = 4 -> Phase4Duration
      [] OTHER -> 0

SleepOf(kind) ==
    CASE kind = "normal" -> NormalSleep
      [] kind = "high" -> HighSleep
      [] kind = "slow" -> SlowSleep
      [] OTHER -> 0

Endpoint(kind) ==
    CASE kind = "normal" -> "ingest"
      [] kind = "high" -> "bulk"
      [] kind = "slow" -> "query"
      [] OTHER -> "none"

(* random.randint(lo, hi) is any integer of lo..hi; the model draws both   *)
(* ends.                                                                   *)
RandInt(lo, hi) == {lo, hi}

NormalBatchMin == 10    \* random.randint(10, 50)
NormalBatchMax == 50
HighBatchMin == 500     \* random.randint(500, 1000)
HighBatchMax == 1000

(* Variant of BatchSizes: the normal batch may be one record larger.       *)
BatchSizesOneMore(kind) ==
    CASE kind = "normal" -> RandInt(NormalBatchMin, NormalBatchMax + 1)
      [] kind = "high" -> RandInt(HighBatchMin, HighBatchMax)
      [] OTHER -> {0}

(* batch_size of one iteration; the slow queries build no batch.           *)
BatchSizes(kind) ==
    CASE kind = "normal" -> RandInt(NormalBatchMin, NormalBatchMax)
      [] kind = "high" -> RandInt(HighBatchMin, HighBatchMax)
      [] OTHER -> {0}

(* The query text a generate_* loop posts itself: only the slow queries    *)
(* do, always the same aggregation.                                        *)
SqlOf(kind) == IF kind = "slow" THEN "aggregation" ELSE "none"

(* The four statements execute_query chooses from.                         *)
Queries == {"count_errors", "count_by_service", "latest_100", "levels_5min"}

NoReq == [endpoint |-> "none", size |-> 0, sql |-> "none"]

(* Variant of LoopCond: the counted loop runs once more.                   *)
LoopCondOneMore(kind, arg) ==
    IF kind = "slow"
    THEN iter <= arg
    ELSE (elapsed < arg) /\ running

(* Variant of LoopCond: the elapsed time is measured from the start of the *)
(* current iteration.                                                      *)
LoopCondFromIteration(kind, arg) ==
    IF kind = "slow"
    THEN iter < arg
    ELSE (elapsed - iterStart < arg) /\ running

(* Variant of LoopCond: the timed loops go on while elapsed <= duration.   *)
LoopCondInclusive(kind, arg) ==
    IF kind = "slow"
    THEN iter < arg
    ELSE (elapsed <= arg) /\ running

(* The loop conditions: `while time.time() - start_time < duration and     *)
(* self.running` for the timed phases, `for i in range(count)` for the     *)
(* slow queries.                                                           *)
LoopCond(kind, arg) ==
    IF kind = "slow"
    THEN iter < arg
    ELSE (elapsed < arg) /\ running

(* Where a loop goes once its write call is over, however it ended.        *)
AfterPost(kind) == IF kind = "normal" THEN "maybe_query" ELSE "sleep"

(* Longest work of one iteration: the batch post, and in the normal load   *)
(* the post of execute_query too; the sleep is not part of it.             *)
WorkBound(kind) == IF kind = "normal" THEN 2 * MaxLatency ELSE MaxLatency

TimedKinds == {"normal", "high"}

Kind == PhaseKind(phase)

(* Main-thread positions inside run_demo's try block but outside the inner *)
(* try/except around a write call.                                         *)
InTryPcs == {"phase_start", "loop_check", "build", "maybe_query", "sleep",
             "phase_return", "complete"}

(* Main-thread positions inside a `try: requests.post(...) except: pass`.  *)
InWritePcs == {"post", "query_post"}

(* Main-thread positions inside a generate_* call.                         *)
InPhasePcs == {"loop_check", "build", "post", "maybe_query", "query_post",
               "sleep"}

----------------------------------------------------------------------------
(* The state after MonitoringDemo.__init__: running is True, nothing has   *)
(* been requested, the dashboard thread does not exist yet.                *)

(***************************************************************************)
(* format_uptime: floor divisions of the seconds, formatted as             *)
(* "{days}d {hours}h {minutes}m".  The record keeps the three numbers next *)
(* to the text.                                                            *)
(***************************************************************************)
SecondsPerDay == 86400
SecondsPerHour == 3600
SecondsPerMinute == 60

NoUptime == [days |-> 0 - 1, hours |-> 0 - 1, minutes |-> 0 - 1, text |-> ""]

(* Variant of format_uptime: the minutes are taken from the seconds of the *)
(* day, not of the hour.                                                   *)
format_uptime_minutes_of_day(secs) ==
    LET days == secs \div SecondsPerDay
        hours == (secs % SecondsPerDay) \div SecondsPerHour
        minutes == (secs % SecondsPerDay) \div SecondsPerMinute
    IN  [days |-> days, hours |-> hours, minutes |-> minutes,
         text |-> ToString(days) \o "d " \o ToString(hours) \o "h "
                  \o ToString(minutes) \o "m"]

format_uptime(secs) ==
    LET days == secs \div SecondsPerDay
        hours == (secs % SecondsPerDay) \div SecondsPerHour
        minutes == (secs % SecondsPerHour) \div SecondsPerMinute
    IN  [days |-> days, hours |-> hours, minutes |-> minutes,
         text |-> ToString(days) \o "d " \o ToString(hours) \o "h "
                  \o ToString(minutes) \o "m"]

Init ==
    /\ running = TRUE
    /\ mpc = "precheck"
    /\ phase = 0
    /\ elapsed = 0
    /\ iter = 0
    /\ pendingExc = FALSE
    /\ precheck = "none"
    /\ dpc = "unstarted"
    /\ phaseLog = <<>>
    /\ lastSub = 0
    /\ nInt = 0
    /\ lastInt = "none"
    /\ writes = 0
    /\ ticksAfterStop = 0
    /\ lastCall = "none"
    /\ lastFetch = "none"
    /\ req = NoReq
    /\ posts = 0
    /\ records = 0
    /\ iterStart = 0
    /\ seconds = 0
    /\ uptime = NoUptime
    /\ fetched = <<>>
    /\ alerts = <<>>
    /\ out = <<>>

----------------------------------------------------------------------------
(* main(): the liveness precheck.                                          *)

(* GET /monitoring/health/live answers 200: main builds the demo and calls *)
(* run_demo.                                                               *)
PrecheckOk ==
    /\ mpc = "precheck"
    /\ mpc' = "start_dashboard"
    /\ precheck' = "ok"
    /\ UNCHANGED <<running, phase, elapsed, iter, pendingExc, dpc, phaseLog,
                   lastSub, nInt, lastInt, writes, ticksAfterStop, lastCall,
                   lastFetch, req, posts, records, iterStart, seconds, uptime,
                   fetched, alerts, out>>

(* Mutant of PrecheckBadStatus: the status code is not looked at.          *)
PrecheckBadStatusIgnored ==
    /\ mpc = "precheck"
    /\ mpc' = "start_dashboard"
    /\ precheck' = "bad_status"
    /\ UNCHANGED <<running, phase, elapsed, iter, pendingExc, dpc, phaseLog,
                   lastSub, nInt, lastInt, writes, ticksAfterStop, lastCall,
                   lastFetch, req, posts, records, iterStart, seconds, uptime,
                   fetched, alerts, out>>

(* The precheck answers with a status other than 200: diagnostic, return.  *)
PrecheckBadStatus ==
    /\ mpc = "precheck"
    /\ mpc' = "precheck_failed"
    /\ precheck' = "bad_status"
    /\ UNCHANGED <<running, phase, elapsed, iter, pendingExc, dpc, phaseLog,
                   lastSub, nInt, lastInt, writes, ticksAfterStop, lastCall,
                   lastFetch, req, posts, records, iterStart, seconds, uptime,
                   fetched, alerts, out>>

(* The precheck raises requests.exceptions.RequestException.               *)
PrecheckConnError ==
    /\ mpc = "precheck"
    /\ mpc' = "precheck_failed"
    /\ precheck' = "conn_error"
    /\ UNCHANGED <<running, phase, elapsed, iter, pendingExc, dpc, phaseLog,
                   lastSub, nInt, lastInt, writes, ticksAfterStop, lastCall,
                   lastFetch, req, posts, records, iterStart, seconds, uptime,
                   fetched, alerts, out>>

----------------------------------------------------------------------------
(* run_demo: start of the dashboard thread and entry of the try block.     *)

(* Variant of StartDashboard: the thread is created but not started.       *)
StartDashboardNotStarted ==
    /\ mpc = "start_dashboard"
    /\ mpc' = "enter_try"
    /\ UNCHANGED <<running, phase, elapsed, iter, pendingExc, precheck, dpc,
                   phaseLog, lastSub, nInt, lastInt, writes, ticksAfterStop,
                   lastCall, lastFetch, req, posts, records, iterStart,
                   seconds, uptime, fetched, alerts, out>>

StartDashboard ==
    /\ mpc = "start_dashboard"
    /\ mpc' = "enter_try"
    /\ dpc' = "check"
    /\ UNCHANGED <<running, phase, elapsed, iter, pendingExc, precheck,
                   phaseLog, lastSub, nInt, lastInt, writes, ticksAfterStop,
                   lastCall, lastFetch, req, posts, records, iterStart,
                   seconds, uptime, fetched, alerts, out>>

EnterTry ==
    /\ mpc = "enter_try"
    /\ mpc' = "phase_start"
    /\ phase' = 1
    /\ UNCHANGED <<running, elapsed, iter, pendingExc, precheck, dpc,
                   phaseLog, lastSub, nInt, lastInt, writes, ticksAfterStop,
                   lastCall, lastFetch, req, posts, records, iterStart,
                   seconds, uptime, fetched, alerts, out>>

----------------------------------------------------------------------------
(* The load phases: generate_normal_load, generate_high_load and           *)
(* generate_slow_queries share one loop shape.                             *)

(* Entry of a generate_* call: the banner and start_time = time.time().    *)
PhaseStart ==
    /\ mpc = "phase_start"
    /\ mpc' = "loop_check"
    /\ elapsed' = 0
    /\ iter' = 0
    /\ phaseLog' = Append(phaseLog, <<Kind, PhaseArg(phase)>>)
    /\ UNCHANGED <<running, phase, pendingExc, precheck, dpc, lastSub, nInt,
                   lastInt, writes, ticksAfterStop, lastCall, lastFetch, req,
                   posts, records, iterStart, seconds, uptime, fetched,
                   alerts, out>>

(* The loop condition holds: one more iteration begins.                    *)
LoopEnter ==
    /\ mpc = "loop_check"
    /\ LoopCond(Kind, PhaseArg(phase))
    /\ mpc' = "build"
    /\ iter' = iter + 1
    /\ iterStart' = elapsed
    /\ UNCHANGED <<running, phase, elapsed, pendingExc, precheck, dpc,
                   phaseLog, lastSub, nInt, lastInt, writes, ticksAfterStop,
                   lastCall, lastFetch, req, posts, records, seconds, uptime,
                   fetched, alerts, out>>

(* The loop condition fails: the generate_* call returns.                  *)
LoopExit ==
    /\ mpc = "loop_check"
    /\ ~LoopCond(Kind, PhaseArg(phase))
    /\ mpc' = "phase_return"
    /\ UNCHANGED <<running, phase, elapsed, iter, pendingExc, precheck, dpc,
                   phaseLog, lastSub, nInt, lastInt, writes, ticksAfterStop,
                   lastCall, lastFetch, req, posts, records, iterStart,
                   seconds, uptime, fetched, alerts, out>>

(* The batch of log records (or the query text) is built.                  *)
Build ==
    /\ mpc = "build"
    /\ mpc' = "post"
    /\ \E n \in BatchSizes(Kind) :
          /\ req' = [endpoint |-> Endpoint(Kind), size |-> n, sql |-> SqlOf(Kind)]
          /\ records' = records + n
    /\ UNCHANGED <<running, phase, elapsed, iter, pendingExc, precheck, dpc,
                   phaseLog, lastSub, nInt, lastInt, writes, ticksAfterStop,
                   lastCall, lastFetch, posts, iterStart, seconds, uptime,
                   fetched, alerts, out>>

(* requests.post of the batch (or of the slow query) returns.              *)
PostOk ==
    /\ mpc = "post"
    /\ \E d \in 0..MaxLatency : elapsed' = elapsed + d
    /\ mpc' = AfterPost(Kind)
    /\ lastSub' = phase
    /\ lastCall' = "ok"
    /\ req' = NoReq
    /\ posts' = posts + 1
    /\ UNCHANGED <<running, phase, iter, pendingExc, precheck, dpc, phaseLog,
                   nInt, lastInt, writes, ticksAfterStop, lastFetch, records,
                   iterStart, seconds, uptime, fetched, alerts, out>>

(* Variant of PostFail: the failed batch is posted again.                  *)
PostFailRetries ==
    /\ mpc = "post"
    /\ \E d \in 0..MaxLatency : elapsed' = elapsed + d
    /\ mpc' = "post"
    /\ lastSub' = phase
    /\ lastCall' = "fail"
    /\ posts' = posts + 1
    /\ UNCHANGED <<running, phase, iter, pendingExc, precheck, dpc, phaseLog,
                   nInt, lastInt, writes, ticksAfterStop, lastFetch, req,
                   records, iterStart, seconds, uptime, fetched, alerts, out>>

(* Mutant of PostFail: the error is not caught; it leaves the phase and    *)
(* run_demo through the finally clause.                                    *)
PostFailPropagates ==
    /\ mpc = "post"
    /\ \E d \in 0..MaxLatency : elapsed' = elapsed + d
    /\ mpc' = "finally"
    /\ pendingExc' = TRUE
    /\ lastSub' = phase
    /\ lastCall' = "fail"
    /\ req' = NoReq
    /\ posts' = posts + 1
    /\ UNCHANGED <<running, phase, iter, precheck, dpc, phaseLog, nInt,
                   lastInt, writes, ticksAfterStop, lastFetch, records,
                   iterStart, seconds, uptime, fetched, alerts, out>>

(* requests.post raises; the bare `except: pass` discards the error.       *)
PostFail ==
    /\ mpc = "post"
    /\ \E d \in 0..MaxLatency : elapsed' = elapsed + d
    /\ mpc' = AfterPost(Kind)
    /\ lastSub' = phase
    /\ lastCall' = "fail"
    /\ req' = NoReq
    /\ posts' = posts + 1
    /\ UNCHANGED <<running, phase, iter, pendingExc, precheck, dpc, phaseLog,
                   nInt, lastInt, writes, ticksAfterStop, lastFetch, records,
                   iterStart, seconds, uptime, fetched, alerts, out>>

(* Normal load only: random.random() < 0.3, execute_query is called.       *)
QueryChosen ==
    /\ mpc = "maybe_query"
    /\ mpc' = "query_post"
    /\ \E q \in Queries : req' = [endpoint |-> "query", size |-> 0, sql |-> q]
    /\ UNCHANGED <<running, phase, elapsed, iter, pendingExc, precheck, dpc,
                   phaseLog, lastSub, nInt, lastInt, writes, ticksAfterStop,
                   lastCall, lastFetch, posts, records, iterStart, seconds,
                   uptime, fetched, alerts, out>>

(* random.random() >= 0.3: no query in this iteration.                     *)
QuerySkipped ==
    /\ mpc = "maybe_query"
    /\ mpc' = "sleep"
    /\ UNCHANGED <<running, phase, elapsed, iter, pendingExc, precheck, dpc,
                   phaseLog, lastSub, nInt, lastInt, writes, ticksAfterStop,
                   lastCall, lastFetch, req, posts, records, iterStart,
                   seconds, uptime, fetched, alerts, out>>

(* execute_query: requests.post of the chosen query returns.               *)
QueryPostOk ==
    /\ mpc = "query_post"
    /\ \E d \in 0..MaxLatency : elapsed' = elapsed + d
    /\ mpc' = "sleep"
    /\ lastSub' = phase
    /\ lastCall' = "ok"
    /\ req' = NoReq
    /\ UNCHANGED <<running, phase, iter, pendingExc, precheck, dpc, phaseLog,
                   nInt, lastInt, writes, ticksAfterStop, lastFetch, posts,
                   records, iterStart, seconds, uptime, fetched, alerts, out>>

(* execute_query: requests.post raises; `except: pass` discards the error. *)
QueryPostFail ==
    /\ mpc = "query_post"
    /\ \E d \in 0..MaxLatency : elapsed' = elapsed + d
    /\ mpc' = "sleep"
    /\ lastSub' = phase
    /\ lastCall' = "fail"
    /\ req' = NoReq
    /\ UNCHANGED <<running, phase, iter, pendingExc, precheck, dpc, phaseLog,
                   nInt, lastInt, writes, ticksAfterStop, lastFetch, posts,
                   records, iterStart, seconds, uptime, fetched, alerts, out>>

(* The inter-iteration delay: time.sleep(1), (0.1) or (0.5).               *)
Sleep ==
    /\ mpc = "sleep"
    /\ elapsed' = elapsed + SleepOf(Kind)
    /\ mpc' = "loop_check"
    /\ UNCHANGED <<running, phase, iter, pendingExc, precheck, dpc, phaseLog,
                   lastSub, nInt, lastInt, writes, ticksAfterStop, lastCall,
                   lastFetch, req, posts, records, iterStart, seconds, uptime,
                   fetched, alerts, out>>

----------------------------------------------------------------------------
(* run_demo: sequencing of the phases and shutdown.                        *)

(* Mutant of NextPhase: the flag is cleared whenever a phase has returned. *)
NextPhaseClearsFlag ==
    /\ mpc = "phase_return"
    /\ IF phase < NumPhases
       THEN /\ phase' = phase + 1
            /\ mpc' = "phase_start"
       ELSE /\ phase' = phase
            /\ mpc' = "complete"
    /\ elapsed' = 0
    /\ iter' = 0
    /\ running' = FALSE
    /\ writes' = IF writes < 2 THEN writes + 1 ELSE writes
    /\ posts' = 0
    /\ records' = 0
    /\ iterStart' = 0
    /\ UNCHANGED <<pendingExc, precheck, dpc, phaseLog, lastSub, nInt,
                   lastInt, ticksAfterStop, lastCall, lastFetch, req, seconds,
                   uptime, fetched, alerts, out>>

(* A generate_* call has returned: the next call of the sequence, or the   *)
(* closing message after the fourth.                                       *)
NextPhase ==
    /\ mpc = "phase_return"
    /\ IF phase < NumPhases
       THEN /\ phase' = phase + 1
            /\ mpc' = "phase_start"
       ELSE /\ phase' = phase
            /\ mpc' = "complete"
    /\ elapsed' = 0
    /\ iter' = 0
    /\ posts' = 0
    /\ records' = 0
    /\ iterStart' = 0
    /\ UNCHANGED <<running, pendingExc, precheck, dpc, phaseLog, lastSub,
                   nInt, lastInt, writes, ticksAfterStop, lastCall, lastFetch,
                   req, seconds, uptime, fetched, alerts, out>>

(* print("Demo complete! ..."), the last statement of the try block.       *)
Complete ==
    /\ mpc = "complete"
    /\ mpc' = "finally"
    /\ UNCHANGED <<running, phase, elapsed, iter, pendingExc, precheck, dpc,
                   phaseLog, lastSub, nInt, lastInt, writes, ticksAfterStop,
                   lastCall, lastFetch, req, posts, records, iterStart,
                   seconds, uptime, fetched, alerts, out>>

(* Mutant of Stopped: run_demo returns from the handler, the flag is not   *)
(* cleared on this path.                                                   *)
StoppedReturns ==
    /\ mpc = "stopped"
    /\ mpc' = "returned"
    /\ UNCHANGED <<running, phase, elapsed, iter, pendingExc, precheck, dpc,
                   phaseLog, lastSub, nInt, lastInt, writes, ticksAfterStop,
                   lastCall, lastFetch, req, posts, records, iterStart,
                   seconds, uptime, fetched, alerts, out>>

(* except KeyboardInterrupt: print("Demo stopped by user.").               *)
Stopped ==
    /\ mpc = "stopped"
    /\ mpc' = "finally"
    /\ UNCHANGED <<running, phase, elapsed, iter, pendingExc, precheck, dpc,
                   phaseLog, lastSub, nInt, lastInt, writes, ticksAfterStop,
                   lastCall, lastFetch, req, posts, records, iterStart,
                   seconds, uptime, fetched, alerts, out>>

(* Mutant of Finally: the assignment to self.running is missing.           *)
FinallyLeavesFlag ==
    /\ mpc = "finally"
    /\ mpc' = IF pendingExc THEN "raised" ELSE "returned"
    /\ UNCHANGED <<running, writes, phase, elapsed, iter, pendingExc,
                   precheck, dpc, phaseLog, lastSub, nInt, lastInt,
                   ticksAfterStop, lastCall, lastFetch, req, posts, records,
                   iterStart, seconds, uptime, fetched, alerts, out>>

(* finally: self.running = False; then run_demo returns, or the exception  *)
(* raised inside the handler goes on propagating.                          *)
Finally ==
    /\ mpc = "finally"
    /\ running' = FALSE
    /\ writes' = writes + 1
    /\ mpc' = IF pendingExc THEN "raised" ELSE "returned"
    /\ UNCHANGED <<phase, elapsed, iter, pendingExc, precheck, dpc, phaseLog,
                   lastSub, nInt, lastInt, ticksAfterStop, lastCall,
                   lastFetch, req, posts, records, iterStart, seconds, uptime,
                   fetched, alerts, out>>

(* main returns (or dies of the uncaught exception) and the interpreter    *)
(* exits; the dashboard thread is a daemon, so it is not waited for: it    *)
(* ends with the process wherever it is.                                   *)
ProcessExit ==
    /\ mpc \in {"precheck_failed", "returned", "raised"}
    /\ mpc' = "exited"
    /\ dpc' = IF dpc \in {"unstarted", "exited"} THEN dpc ELSE "killed"
    /\ UNCHANGED <<running, phase, elapsed, iter, pendingExc, precheck,
                   phaseLog, lastSub, nInt, lastInt, writes, ticksAfterStop,
                   lastCall, lastFetch, req, posts, records, iterStart,
                   seconds, uptime, fetched, alerts, out>>

----------------------------------------------------------------------------
(* Ctrl+C: Python raises KeyboardInterrupt in the main thread, at whatever *)
(* statement it is executing.                                              *)

(* Before run_demo's try block is entered (in main's precheck, whose       *)
(* handler catches RequestException only, or while the dashboard thread is *)
(* being started): nothing catches the exception.                          *)
InterruptOutsideTry ==
    /\ nInt < MaxInterrupts
    /\ mpc \in {"precheck", "start_dashboard", "enter_try"}
    /\ mpc' = "raised"
    /\ nInt' = nInt + 1
    /\ lastInt' = mpc
    /\ UNCHANGED <<running, phase, elapsed, iter, pendingExc, precheck, dpc,
                   phaseLog, lastSub, writes, ticksAfterStop, lastCall,
                   lastFetch, req, posts, records, iterStart, seconds, uptime,
                   fetched, alerts, out>>

(* Inside run_demo's try block, outside a write call: run_demo's           *)
(* `except KeyboardInterrupt` takes over.                                  *)
InterruptInTry ==
    /\ nInt < MaxInterrupts
    /\ mpc \in InTryPcs
    /\ mpc' = "stopped"
    /\ nInt' = nInt + 1
    /\ lastInt' = mpc
    /\ elapsed' = 0
    /\ iter' = 0
    /\ posts' = 0
    /\ records' = 0
    /\ iterStart' = 0
    /\ UNCHANGED <<running, phase, pendingExc, precheck, dpc, phaseLog,
                   lastSub, writes, ticksAfterStop, lastCall, lastFetch, req,
                   seconds, uptime, fetched, alerts, out>>

(* Inside `try: requests.post(...) except: pass`: the bare except catches  *)
(* KeyboardInterrupt like any other exception, and the loop goes on.       *)
InterruptInWrite ==
    /\ nInt < MaxInterrupts
    /\ mpc \in InWritePcs
    /\ \E d \in 0..MaxLatency : elapsed' = elapsed + d
    /\ mpc' = IF mpc = "post" THEN AfterPost(Kind) ELSE "sleep"
    /\ lastSub' = phase
    /\ nInt' = nInt + 1
    /\ lastInt' = mpc
    /\ lastCall' = "aborted"
    /\ req' = NoReq
    /\ posts' = IF mpc = "post" THEN posts + 1 ELSE posts
    /\ UNCHANGED <<running, phase, iter, pendingExc, precheck, dpc, phaseLog,
                   writes, ticksAfterStop, lastFetch, records, iterStart,
                   seconds, uptime, fetched, alerts, out>>

(* Inside the `except KeyboardInterrupt` handler: the new exception leaves *)
(* the handler, the finally clause still runs.                             *)
InterruptInHandler ==
    /\ nInt < MaxInterrupts
    /\ mpc = "stopped"
    /\ mpc' = "finally"
    /\ pendingExc' = TRUE
    /\ nInt' = nInt + 1
    /\ lastInt' = mpc
    /\ UNCHANGED <<running, phase, elapsed, iter, precheck, dpc, phaseLog,
                   lastSub, writes, ticksAfterStop, lastCall, lastFetch, req,
                   posts, records, iterStart, seconds, uptime, fetched,
                   alerts, out>>

(* Inside the finally clause, before the assignment has been executed.     *)
InterruptInFinally ==
    /\ nInt < MaxInterrupts
    /\ mpc = "finally"
    /\ mpc' = "raised"
    /\ nInt' = nInt + 1
    /\ lastInt' = mpc
    /\ UNCHANGED <<running, phase, elapsed, iter, pendingExc, precheck, dpc,
                   phaseLog, lastSub, writes, ticksAfterStop, lastCall,
                   lastFetch, req, posts, records, iterStart, seconds, uptime,
                   fetched, alerts, out>>

----------------------------------------------------------------------------
(* display_metrics_dashboard, run by the daemon thread.                    *)

DashFetchPcs == {"health", "metrics", "alerts"}

(* Positions of the dashboard thread inside its loop.                      *)
DashLoopPcs == DashFetchPcs \cup {"check", "render", "error", "sleep"}

FetchOf(pc) ==
    CASE pc = "health" -> "health"
      [] pc = "metrics" -> "metrics"
      [] pc = "alerts" -> "alerts"
      [] OTHER -> "none"

AfterFetch(pc) ==
    CASE pc = "health" -> "metrics"
      [] pc = "metrics" -> "alerts"
      [] pc = "alerts" -> "render"
      [] OTHER -> "error"

(* The fetches of one tick, in the order of the code.                      *)
FetchOrder == <<"health", "metrics", "alerts">>

(***************************************************************************)
(* What a tick prints, as a sequence of lines.  An alert line carries the  *)
(* id of its alert; every other line has id 0.                             *)
(***************************************************************************)
Line(kind, id) == [kind |-> kind, id |-> id]

MaxShown == 5           \* alerts[:5]

(* Variant of Slice: the last n elements, list[-n:].                       *)
SliceFromBack(list, n) ==
    SubSeq(list, IF Len(list) < n THEN 1 ELSE Len(list) - n + 1, Len(list))

(* list[:n] *)
Slice(list, n) == SubSeq(list, 1, IF Len(list) < n THEN Len(list) ELSE n)

(* `if alerts:` one line per alert of alerts[:5], `else:` the line         *)
(* "No active alerts".                                                     *)
AlertLines(list) ==
    IF list # <<>>
    THEN [i \in 1..Len(Slice(list, MaxShown)) |->
             Line("alert", Slice(list, MaxShown)[i])]
    ELSE <<Line("no_alerts", 0)>>

(* Header, status, metrics, the alerts and the closing hint.               *)
Snapshot(list) ==
    <<Line("header", 0), Line("status", 0), Line("metrics", 0)>>
    \o AlertLines(list) \o <<Line("footer", 0)>>

(* The kinds of line that make up the snapshot.                            *)
SnapshotKinds == {"header", "status", "metrics", "alert", "no_alerts",
                  "footer"}

(* The lists get_alerts may return: alert ids 1..n in the order received,  *)
(* for no alert, as many as are shown, and more.                           *)
AlertCounts == {0, MaxShown, MaxAlerts}

AlertLists == {[i \in 1..n |-> i] : n \in AlertCounts}

(* A tick begins with its first fetch; the count saturates at 2.           *)
TickCount == 
    IF dpc = "health" /\ ~running /\ ticksAfterStop < 2
    THEN ticksAfterStop + 1
    ELSE ticksAfterStop

(* Mutant of DashEnter: `while True:`, the flag is not read.               *)
DashEnterIgnoresFlag ==
    /\ dpc = "check"
    /\ dpc' = "health"
    /\ out' = <<Line("clear", 0)>>
    /\ UNCHANGED <<running, mpc, phase, elapsed, iter, pendingExc, precheck,
                   phaseLog, lastSub, nInt, lastInt, writes, ticksAfterStop,
                   lastCall, lastFetch, req, posts, records, iterStart,
                   seconds, uptime, fetched, alerts>>

(* `while self.running:` holds: the screen is cleared, a tick begins.      *)
DashEnter ==
    /\ dpc = "check"
    /\ running
    /\ dpc' = "health"
    /\ out' = <<Line("clear", 0)>>
    /\ UNCHANGED <<running, mpc, phase, elapsed, iter, pendingExc, precheck,
                   phaseLog, lastSub, nInt, lastInt, writes, ticksAfterStop,
                   lastCall, lastFetch, req, posts, records, iterStart,
                   seconds, uptime, fetched, alerts>>

(* `while self.running:` fails: the function returns, the thread ends.     *)
DashExit ==
    /\ dpc = "check"
    /\ ~running
    /\ dpc' = "exited"
    /\ UNCHANGED <<running, mpc, phase, elapsed, iter, pendingExc, precheck,
                   phaseLog, lastSub, nInt, lastInt, writes, ticksAfterStop,
                   lastCall, lastFetch, req, posts, records, iterStart,
                   seconds, uptime, fetched, alerts, out>>

(* check_health, get_metrics or get_alerts returns its data.               *)
FetchOk ==
    /\ dpc \in DashFetchPcs
    /\ dpc' = AfterFetch(dpc)
    /\ ticksAfterStop' = TickCount
    /\ lastFetch' = "ok"
    /\ fetched' = Append(fetched, FetchOf(dpc))
    /\ \E list \in AlertLists :
          alerts' = IF dpc = "alerts" THEN list ELSE alerts
    /\ UNCHANGED <<running, mpc, phase, elapsed, iter, pendingExc, precheck,
                   phaseLog, lastSub, nInt, lastInt, writes, lastCall, req,
                   posts, records, iterStart, seconds, uptime, out>>

(* Variant of FetchFail: the failure is passed over and the tick goes on   *)
(* with the next fetch or the rendering.                                   *)
FetchFailContinues ==
    /\ dpc \in DashFetchPcs
    /\ dpc' = AfterFetch(dpc)
    /\ ticksAfterStop' = TickCount
    /\ lastFetch' = "fail"
    /\ fetched' = Append(fetched, FetchOf(dpc))
    /\ UNCHANGED <<running, mpc, phase, elapsed, iter, pendingExc, precheck,
                   phaseLog, lastSub, nInt, lastInt, writes, lastCall, req,
                   posts, records, iterStart, seconds, uptime, alerts, out>>

(* Mutant of FetchFail: the error is not caught; it ends the thread.       *)
FetchFailEndsThread ==
    /\ dpc \in DashFetchPcs
    /\ dpc' = "exited"
    /\ ticksAfterStop' = TickCount
    /\ lastFetch' = "fail"
    /\ fetched' = Append(fetched, FetchOf(dpc))
    /\ UNCHANGED <<running, mpc, phase, elapsed, iter, pendingExc, precheck,
                   phaseLog, lastSub, nInt, lastInt, writes, lastCall, req,
                   posts, records, iterStart, seconds, uptime, alerts, out>>

(* check_health, get_metrics or get_alerts raises: `except Exception`      *)
(* takes over, the rest of the try body is skipped.                        *)
FetchFail ==
    /\ dpc \in DashFetchPcs
    /\ dpc' = "error"
    /\ ticksAfterStop' = TickCount
    /\ lastFetch' = "fail"
    /\ fetched' = Append(fetched, FetchOf(dpc))
    /\ UNCHANGED <<running, mpc, phase, elapsed, iter, pendingExc, precheck,
                   phaseLog, lastSub, nInt, lastInt, writes, lastCall, req,
                   posts, records, iterStart, seconds, uptime, alerts, out>>

(* The snapshot is printed.                                                *)
Render ==
    /\ dpc = "render"
    /\ dpc' = "sleep"
    /\ out' = out \o Snapshot(alerts)
    /\ UNCHANGED <<running, mpc, phase, elapsed, iter, pendingExc, precheck,
                   phaseLog, lastSub, nInt, lastInt, writes, ticksAfterStop,
                   lastCall, lastFetch, req, posts, records, iterStart,
                   seconds, uptime, fetched, alerts>>

(* The data is not of the expected shape (a metric without "name", an      *)
(* alert without "severity"): the lookup raises after part of the snapshot *)
(* has been printed, `except Exception` takes over.                        *)
RenderFail ==
    /\ dpc = "render"
    /\ dpc' = "error"
    /\ \/ out' = out \o <<Line("header", 0), Line("status", 0)>>
       \/ /\ alerts # <<>>
          /\ out' = out \o <<Line("header", 0), Line("status", 0),
                             Line("metrics", 0)>>
    /\ UNCHANGED <<running, mpc, phase, elapsed, iter, pendingExc, precheck,
                   phaseLog, lastSub, nInt, lastInt, writes, ticksAfterStop,
                   lastCall, lastFetch, req, posts, records, iterStart,
                   seconds, uptime, fetched, alerts>>

(* Variant of DashError: the dashboard gives up and clears the flag.       *)
DashErrorClearsFlag ==
    /\ dpc = "error"
    /\ dpc' = "sleep"
    /\ out' = Append(out, Line("error", 0))
    /\ running' = FALSE
    /\ UNCHANGED <<mpc, phase, elapsed, iter, pendingExc, precheck,
                   phaseLog, lastSub, nInt, lastInt, writes, ticksAfterStop,
                   lastCall, lastFetch, req, posts, records, iterStart,
                   seconds, uptime, fetched, alerts>>

(* print(f"Error updating dashboard: {e}").                                *)
DashError ==
    /\ dpc = "error"
    /\ dpc' = "sleep"
    /\ out' = Append(out, Line("error", 0))
    /\ UNCHANGED <<running, mpc, phase, elapsed, iter, pendingExc, precheck,
                   phaseLog, lastSub, nInt, lastInt, writes, ticksAfterStop,
                   lastCall, lastFetch, req, posts, records, iterStart,
                   seconds, uptime, fetched, alerts>>

(* time.sleep(2), then back to the loop condition.  The tick is over: its  *)
(* output and its locals are dead, each is assigned again before the next  *)
(* tick reads it.                                                          *)
DashSleep ==
    /\ dpc = "sleep"
    /\ dpc' = "check"
    /\ out' = <<>>
    /\ fetched' = <<>>
    /\ alerts' = <<>>
    /\ UNCHANGED <<running, mpc, phase, elapsed, iter, pendingExc, precheck,
                   phaseLog, lastSub, nInt, lastInt, writes, ticksAfterStop,
                   lastCall, lastFetch, req, posts, records, iterStart,
                   seconds, uptime>>

----------------------------------------------------------------------------
Main ==
    \/ PrecheckOk \/ PrecheckBadStatus \/ PrecheckConnError
    \/ StartDashboard \/ EnterTry
    \/ PhaseStart \/ LoopEnter \/ LoopExit \/ Build
    \/ PostOk \/ PostFail
    \/ QueryChosen \/ QuerySkipped \/ QueryPostOk \/ QueryPostFail
    \/ Sleep \/ NextPhase
    \/ Complete \/ Stopped \/ Finally \/ ProcessExit

Interrupt ==
    \/ InterruptOutsideTry \/ InterruptInTry \/ InterruptInWrite
    \/ InterruptInHandler \/ InterruptInFinally

Dashboard ==
    \/ DashEnter \/ DashExit \/ FetchOk \/ FetchFail
    \/ Render \/ RenderFail \/ DashError \/ DashSleep

Next == Main \/ Interrupt \/ Dashboard

Spec == Init /\ [][Next]_vars

(* The dashboard thread is scheduled as long as it has a step to take.     *)
FairSpec == Spec /\ WF_vars(Dashboard)

----------------------------------------------------------------------------
(* A load phase called on its own, as a caller other than run_demo may do: *)
(* any call of run_demo's sequence, with the flag cleared from outside at  *)
(* any moment of the call.                                                 *)

InitPhase ==
    /\ running = TRUE
    /\ mpc = "phase_start"
    /\ phase \in 1..NumPhases
    /\ elapsed = 0
    /\ iter = 0
    /\ pendingExc = FALSE
    /\ precheck = "ok"
    /\ dpc = "unstarted"
    /\ phaseLog = <<>>
    /\ lastSub = 0
    /\ nInt = 0
    /\ lastInt = "none"
    /\ writes = 0
    /\ ticksAfterStop = 0
    /\ lastCall = "none"
    /\ lastFetch = "none"
    /\ req = NoReq
    /\ posts = 0
    /\ records = 0
    /\ iterStart = 0
    /\ seconds = 0
    /\ uptime = NoUptime
    /\ fetched = <<>>
    /\ alerts = <<>>
    /\ out = <<>>

(* demo.running = False, written by the caller while the phase runs.       *)
StopRequest ==
    /\ running
    /\ mpc \in InPhasePcs \cup {"phase_start"}
    /\ running' = FALSE
    /\ writes' = writes + 1
    /\ UNCHANGED <<mpc, phase, elapsed, iter, pendingExc, precheck, dpc,
                   phaseLog, lastSub, nInt, lastInt, ticksAfterStop, lastCall,
                   lastFetch, req, posts, records, iterStart, seconds, uptime,
                   fetched, alerts, out>>

PhaseCall ==
    \/ PhaseStart \/ LoopEnter \/ LoopExit \/ Build
    \/ PostOk \/ PostFail
    \/ QueryChosen \/ QuerySkipped \/ QueryPostOk \/ QueryPostFail
    \/ Sleep

NextPhaseCall == PhaseCall \/ StopRequest

SpecPhase == InitPhase /\ [][NextPhaseCall]_vars

(***************************************************************************)
(* format_uptime on its own: the argument is drawn from whole numbers of   *)
(* seconds around every unit boundary, up to MaxDays days.                 *)
(***************************************************************************)
UptimeInputs ==
    {d * SecondsPerDay + h * SecondsPerHour + m * SecondsPerMinute + sec :
        d \in 0..MaxDays, h \in {0, 1, 23}, m \in {0, 1, 59},
        sec \in {0, 1, 59}}

InitUptime ==
    /\ running = TRUE
    /\ mpc = "phase_start"
    /\ phase = 1
    /\ elapsed = 0
    /\ iter = 0
    /\ pendingExc = FALSE
    /\ precheck = "ok"
    /\ dpc = "render"
    /\ phaseLog = <<>>
    /\ lastSub = 0
    /\ nInt = 0
    /\ lastInt = "none"
    /\ writes = 0
    /\ ticksAfterStop = 0
    /\ lastCall = "none"
    /\ lastFetch = "ok"
    /\ req = NoReq
    /\ posts = 0
    /\ records = 0
    /\ iterStart = 0
    /\ seconds \in UptimeInputs
    /\ uptime = NoUptime
    /\ fetched = <<>>
    /\ alerts = <<>>
    /\ out = <<>>

FormatUptimeCall ==
    /\ dpc = "render"
    /\ uptime = NoUptime
    /\ uptime' = format_uptime(seconds)
    /\ UNCHANGED <<running, mpc, phase, elapsed, iter, pendingExc, precheck,
                   dpc, phaseLog, lastSub, nInt, lastInt, writes,
                   ticksAfterStop, lastCall, lastFetch, req, posts, records,
                   iterStart, seconds, fetched, alerts, out>>

SpecUptime == InitUptime /\ [][FormatUptimeCall]_vars

----------------------------------------------------------------------------
(* Properties.                                                             *)

DemoSequence ==
    << <<"normal", Phase1Duration>>, <<"high", Phase2Duration>>,
       <<"slow", Phase3Count>>, <<"normal", Phase4Duration>> >>

IsPrefix(s, t) == Len(s) <= Len(t) /\ SubSeq(t, 1, Len(s)) = s

(* The main thread is on run_demo's shutdown path or beyond.               *)
ShutdownPcs == {"stopped", "finally", "returned", "raised", "exited"}

(* C1: the generate_* calls are made in the order normal(Phase1Duration),  *)
(* high(Phase2Duration), slow(Phase3Count), normal(Phase4Duration); a call *)
(* begins only when the previous one has returned, none is skipped or      *)
(* repeated, the phases of successive submissions never decrease, and a    *)
(* run without interrupt ends only after all four calls.                   *)
C1_PhaseOrder ==
    /\ [](/\ IsPrefix(phaseLog, DemoSequence)
          /\ (mpc = "phase_start" => Len(phaseLog) = phase - 1)
          /\ (mpc \in InPhasePcs \cup {"phase_return"} => Len(phaseLog) = phase)
          /\ lastSub <= Len(phaseLog)
          /\ (mpc \in {"complete", "finally", "returned"} /\ nInt = 0
                => phaseLog = DemoSequence /\ lastSub = NumPhases))
    /\ [][/\ lastSub' >= lastSub
          /\ (phase' # phase
                => phase' = phase + 1 /\ mpc \in {"enter_try", "phase_return"})]_vars

C1_Witness ==
    /\ mpc = "returned"
    /\ nInt = 0
    /\ phaseLog = DemoSequence
    /\ lastSub = NumPhases

(* C2: after an interrupt delivered while a load phase was active, the     *)
(* main thread is on the shutdown path: the phase runs no further step.    *)
C2_InterruptAbortsPhase ==
    lastInt \in InPhasePcs => mpc \in ShutdownPcs

C4_FlagMonotonic ==
    /\ running = TRUE
    /\ [][running' => running]_vars
    /\ [](/\ writes <= 1
          /\ (running <=> writes = 0)
          /\ (mpc = "returned" => writes = 1)
          /\ (mpc \in InPhasePcs \cup {"phase_start", "phase_return"} => running))

C4_Witness ==
    /\ mpc = "returned"
    /\ writes = 1
    /\ ~running
    /\ phaseLog = DemoSequence

(* C5: once running is false, no phase loop begins another iteration.      *)
C5_NoIterationAfterStop ==
    [][~running => ~(mpc = "loop_check" /\ mpc' = "build")]_vars

(* C6: at most one dashboard tick begins after running became false, a     *)
(* loop check made while running is false ends the loop, and once running  *)
(* is false the dashboard thread eventually ends.                          *)
C6_DashboardStops ==
    /\ [](ticksAfterStop <= 1)
    /\ [][(dpc = "check" /\ ~running /\ dpc' # dpc) => dpc' \in {"exited", "killed"}]_vars
    /\ (~running ~> dpc \in {"exited", "killed"})

C6_Witness ==
    /\ ~running
    /\ dpc = "exited"
    /\ ticksAfterStop = 1

(* C7: a write call that fails leaves the loop where a successful one      *)
(* leaves it, with the phase, the flag and the iteration count untouched:  *)
(* the delay and the next loop check follow, and a run without interrupt   *)
(* still makes all four calls.                                             *)
C7_WriteFailureSwallowed ==
    /\ [][(mpc \in InWritePcs /\ mpc' # mpc /\ nInt' = nInt /\ lastCall' = "fail")
            => /\ mpc' = (IF mpc = "post" THEN AfterPost(Kind) ELSE "sleep")
               /\ phase' = phase
               /\ running' = running
               /\ iter' = iter
               /\ pendingExc' = pendingExc]_vars
    /\ [](mpc = "returned" /\ nInt = 0 /\ lastCall = "fail" => phaseLog = DemoSequence)

C7_Witness ==
    /\ mpc = "returned"
    /\ nInt = 0
    /\ lastCall = "fail"
    /\ phaseLog = DemoSequence

(* C8: a failed fetch leads to the error line, the error line to the       *)
(* delay, the delay to the loop check, and a loop check made while running *)
(* is true to the next tick; the loop is left only when running is false.  *)
C8_ReadFailureSurvived ==
    /\ [][(dpc \in DashFetchPcs /\ mpc' = mpc /\ lastFetch' = "fail")
            => dpc' = "error"]_vars
    /\ [][(dpc = "error" /\ dpc' # dpc) => dpc' \in {"sleep", "killed"}]_vars
    /\ [][(dpc = "sleep" /\ dpc' # dpc) => dpc' \in {"check", "killed"}]_vars
    /\ [][(dpc = "check" /\ running /\ dpc' # dpc) => dpc' \in {"health", "killed"}]_vars
    /\ [](dpc = "exited" => ~running)

C8_Witness ==
    /\ dpc = "health"
    /\ lastFetch = "fail"
    /\ running

(* C9: after a failed precheck nothing is requested, the dashboard thread  *)
(* is never started and no phase is called.                                *)
C9_PrecheckFailureStops ==
    precheck \in {"bad_status", "conn_error"}
        => /\ lastCall = "none"
           /\ lastFetch = "none"
           /\ lastSub = 0
           /\ dpc = "unstarted"
           /\ phase = 0
           /\ phaseLog = <<>>
           /\ mpc \in {"precheck_failed", "exited"}

C9_Witness ==
    /\ precheck = "bad_status"
    /\ mpc = "exited"

(* C10, as claimed: once run_demo has returned, the dashboard thread has   *)
(* left its loop.                                                          *)
C10_JoinedAtReturn ==
    mpc = "returned" => dpc = "exited"

(* C10, amended: run_demo does not wait for the dashboard thread.  Once    *)
(* run_demo has returned the thread passes no further loop check, and once *)
(* the process has exited the thread has ended, by leaving its loop or     *)
(* with the process.                                                       *)
C10_NoTickAfterReturn ==
    /\ [][(mpc \in {"returned", "exited"} /\ dpc = "check") => dpc' # "health"]_vars
    /\ [](mpc = "exited" => dpc \in {"unstarted", "exited", "killed"})

C10_Witness ==
    /\ mpc = "returned"
    /\ dpc \in {"health", "metrics", "alerts", "render"}

(***************************************************************************)
(* C11: every batch a Normal Load iteration sends has 10 to 50 records and *)
(* goes to the ingest endpoint, every batch a High Load iteration sends    *)
(* has 500 to 1000 records and goes to the bulk endpoint; no batch is      *)
(* outside its bounds or sent to the other endpoint.                       *)
(***************************************************************************)
C11_BatchBounds ==
    mpc = "post" =>
        /\ (Kind = "normal" =>
               /\ req.endpoint = "ingest"
               /\ req.size \in NormalBatchMin..NormalBatchMax)
        /\ (Kind = "high" =>
               /\ req.endpoint = "bulk"
               /\ req.size \in HighBatchMin..HighBatchMax)
        /\ (req.size > 0 => Kind \in {"normal", "high"})

C11_Witness ==
    /\ mpc = "post"
    /\ Kind = "high"
    /\ req.endpoint = "bulk"
    /\ req.size = HighBatchMax
    /\ iter > 1

(***************************************************************************)
(* C12: for every whole number s of seconds, format_uptime(s) is           *)
(* "{d}d {h}h {m}m" with d = s div 86400, h = (s mod 86400) div 3600 and   *)
(* m = (s mod 3600) div 60, so that 0 <= h < 24, 0 <= m < 60 and the       *)
(* seconds left over, s - (86400 d + 3600 h + 60 m), are in 0..59; 0 gives *)
(* "0d 0h 0m", 86400 "1d 0h 0m", 3661 "0d 1h 1m" and 90000 "1d 1h 0m".     *)
(***************************************************************************)
C12_UptimeExamples ==
    /\ format_uptime(0).text = "0d 0h 0m"
    /\ format_uptime(86400).text = "1d 0h 0m"
    /\ format_uptime(3661).text = "0d 1h 1m"
    /\ format_uptime(90000).text = "1d 1h 0m"

C12_FormatUptime ==
    /\ C12_UptimeExamples
    /\ uptime # NoUptime =>
          LET d == uptime.days
              h == uptime.hours
              m == uptime.minutes
              rest == seconds - (86400 * d + 3600 * h + 60 * m)
          IN  /\ d = seconds \div 86400
              /\ h = (seconds % 86400) \div 3600
              /\ m = (seconds % 3600) \div 60
              /\ 0 <= h /\ h < 24
              /\ 0 <= m /\ m < 60
              /\ 0 <= rest /\ rest < 60
              /\ uptime.text = ToString(d) \o "d " \o ToString(h) \o "h "
                               \o ToString(m) \o "m"

C12_Witness ==
    /\ uptime # NoUptime
    /\ seconds = 86400 + 23 * 3600 + 59 * 60 + 59
    /\ uptime.text = "1d 23h 59m"

(***************************************************************************)
(* C13: with the flag true throughout and a client that answers without    *)
(* delay, a Normal Load call makes one ingest call per second begun of its *)
(* duration and builds 10 to 50 records for each; for a duration of two    *)
(* seconds that is at least 2 ingest calls and 20 to 100 records in total. *)
(***************************************************************************)
C13_ZeroDelay ==
    /\ mpc = "phase_return"
    /\ Kind = "normal"
    /\ running
    /\ elapsed = NormalSleep * iter

C13_NormalLoadTotals ==
    C13_ZeroDelay =>
        /\ NormalSleep * (iter - 1) < PhaseArg(phase)
        /\ PhaseArg(phase) <= NormalSleep * iter
        /\ posts = iter
        /\ records >= NormalBatchMin * posts
        /\ records <= NormalBatchMax * posts
        /\ (PhaseArg(phase) = 2 * NormalSleep =>
               /\ posts >= 2
               /\ records >= 20
               /\ records <= 100)

C13_Witness ==
    /\ C13_ZeroDelay
    /\ PhaseArg(phase) = 2 * NormalSleep
    /\ posts = 2
    /\ records = 100

(***************************************************************************)
(* C14 as stated: a timed phase (Normal Load, High Load) ends no later     *)
(* than its duration plus the work of one iteration.                       *)
(***************************************************************************)
C14_OverrunWithinWork ==
    (mpc = "phase_return" /\ Kind \in TimedKinds) =>
        elapsed <= PhaseArg(phase) + WorkBound(Kind)

(***************************************************************************)
(* C14 amended: the elapsed time of a timed phase is measured from the     *)
(* phase start, no iteration begins once it has reached the duration, and  *)
(* the phase ends less than one iteration's work plus one inter-iteration  *)
(* delay after its duration.                                               *)
(***************************************************************************)
C14_OverrunWithinIteration ==
    /\ []((mpc \in InPhasePcs \cup {"phase_return"} /\ Kind \in TimedKinds
           /\ iter > 0) =>
              /\ iterStart < PhaseArg(phase)
              /\ elapsed <= iterStart + WorkBound(Kind) + SleepOf(Kind)
              /\ elapsed < PhaseArg(phase) + WorkBound(Kind) + SleepOf(Kind))
    /\ [][(iter' = iter + 1 /\ Kind \in TimedKinds) =>
              /\ elapsed < PhaseArg(phase)
              /\ iterStart' = elapsed]_vars

C14_Witness ==
    /\ mpc = "phase_return"
    /\ Kind = "normal"
    /\ running
    /\ iter > 1
    /\ elapsed > PhaseArg(phase) + WorkBound(Kind)

(***************************************************************************)
(* C15: no failed call is retried: every load iteration issues exactly one *)
(* ingest, bulk or slow-query request whether it fails or not, a request   *)
(* is dropped once its call is over and so never sent again, and a         *)
(* dashboard tick issues each of its three fetches at most once.           *)
(***************************************************************************)
C15_NoRetry ==
    /\ (mpc \in {"build", "post"} => posts = iter - 1)
    /\ (mpc \in {"phase_start", "loop_check", "maybe_query", "query_post",
                 "sleep", "phase_return"} => posts = iter)
    /\ (mpc \notin InWritePcs => req = NoReq)
    /\ IsPrefix(fetched, FetchOrder)
    /\ (dpc \in DashFetchPcs => FetchOrder[Len(fetched) + 1] = FetchOf(dpc))

C15_Witness ==
    /\ Kind = "high"
    /\ mpc = "post"
    /\ lastCall = "fail"
    /\ iter = 2
    /\ posts = 1
    /\ dpc = "error"
    /\ lastFetch = "fail"
    /\ fetched = <<"health", "metrics">>

(***************************************************************************)
(* C16: the dashboard is started before the first load phase: no phase     *)
(* has begun and nothing has been submitted while the dashboard thread is  *)
(* not started; and while the flag is true and both are in their loops,    *)
(* the load driver and the dashboard each have a step to take whatever     *)
(* the position of the other.                                              *)
(***************************************************************************)
C16_DashboardFirst ==
    /\ (dpc = "unstarted" =>
           /\ phase = 0
           /\ phaseLog = <<>>
           /\ lastSub = 0
           /\ lastCall = "none"
           /\ mpc \notin InPhasePcs)
    /\ ((running /\ mpc \in InPhasePcs /\ dpc \in DashLoopPcs) =>
           /\ ENABLED Main
           /\ ENABLED Dashboard)

C16_Witness ==
    /\ running
    /\ phase = 1
    /\ mpc = "post"
    /\ iter = 2
    /\ dpc = "metrics"
    /\ lastFetch = "ok"
    /\ lastCall \in {"ok", "fail"}

(***************************************************************************)
(* C17: a Slow Queries call with count n that is not interrupted submits   *)
(* exactly n query requests, each with the same fixed aggregation query,   *)
(* waits 0.5 s after each and submits no log batch.                        *)
(***************************************************************************)
C17_SlowQueries ==
    Kind = "slow" =>
        /\ records = 0
        /\ iter <= PhaseArg(phase)
        /\ (mpc \in InWritePcs =>
               /\ mpc = "post"
               /\ req = [endpoint |-> "query", size |-> 0,
                         sql |-> "aggregation"])
        /\ (mpc \in {"loop_check", "phase_return"} =>
               /\ posts = iter
               /\ elapsed >= SlowSleep * posts
               /\ elapsed <= (SlowSleep + MaxLatency) * posts)
        /\ (mpc = "sleep" =>
               /\ posts = iter
               /\ elapsed >= SlowSleep * (posts - 1))
        /\ (mpc = "phase_return" => posts = PhaseArg(phase))

C17_Witness ==
    /\ Kind = "slow"
    /\ mpc = "phase_return"
    /\ posts = PhaseArg(phase)
    /\ posts > 1
    /\ records = 0
    /\ elapsed > SlowSleep * posts

(***************************************************************************)
(* C18: in every tick that rendered its snapshot, the alert lines are the  *)
(* first min(5, n) of the n alerts fetched, in their order, and the "no    *)
(* active alerts" line is printed exactly when the fetched list is empty.  *)
(***************************************************************************)
C18_TickRendered ==
    /\ dpc = "sleep"
    /\ out # <<>>
    /\ out[Len(out)].kind = "footer"

C18_AlertCap ==
    C18_TickRendered =>
        LET shown == SelectSeq(out, LAMBDA l : l.kind = "alert")
            none == SelectSeq(out, LAMBDA l : l.kind = "no_alerts")
            n == Len(alerts)
            cap == IF n < 5 THEN n ELSE 5
        IN  /\ Len(shown) = cap
            /\ \A i \in 1..cap : shown[i].id = alerts[i]
            /\ (Len(none) = 1 <=> n = 0)
            /\ Len(none) <= 1

C18_Witness ==
    /\ C18_TickRendered
    /\ Len(alerts) = MaxAlerts
    /\ Len(SelectSeq(out, LAMBDA l : l.kind = "alert")) = 5

(***************************************************************************)
(* C19: the flag has a single writer: the dashboard loop and the load      *)
(* loops only read it, its only write after construction is the shutdown   *)
(* step of run_demo, which sets it false; and no step of the dashboard     *)
(* changes anything the load driver reads.                                 *)
(***************************************************************************)
C19_SingleWriter ==
    /\ [][(running' # running \/ writes' # writes) =>
              /\ mpc = "finally"
              /\ mpc' \in {"returned", "raised"}
              /\ running' = FALSE
              /\ writes' = writes + 1
              /\ dpc' = dpc]_vars
    /\ [][(dpc \in DashLoopPcs /\ dpc' # dpc /\ dpc' # "killed") =>
              UNCHANGED <<running, mpc, phase, elapsed, iter, pendingExc,
                          phaseLog, req, posts, records, iterStart,
                          lastCall, lastSub>>]_vars

C19_Witness ==
    /\ writes = 1
    /\ running = FALSE
    /\ mpc = "returned"
    /\ phaseLog = DemoSequence
    /\ lastFetch = "fail"
    /\ dpc = "sleep"

(***************************************************************************)
(* C20: a tick issues its fetches in the order health, metrics, alerts and *)
(* prints no part of the snapshot before all three have returned; when a   *)
(* fetch fails, no further fetch of the tick is issued and the tick prints *)
(* no part of the snapshot, only the error line; the next tick starts      *)
(* again with the health fetch and renders only what it fetched itself.    *)
(***************************************************************************)
C20_TickOrder ==
    LET snap == SelectSeq(out, LAMBDA l : l.kind \in SnapshotKinds)
        errs == SelectSeq(out, LAMBDA l : l.kind = "error")
    IN  /\ IsPrefix(fetched, FetchOrder)
        /\ (snap # <<>> => fetched = FetchOrder /\ lastFetch = "ok")
        /\ (dpc \in DashFetchPcs =>
               /\ FetchOf(dpc) = FetchOrder[Len(fetched) + 1]
               /\ (fetched # <<>> => lastFetch = "ok")
               /\ out = <<Line("clear", 0)>>)
        /\ (dpc = "render" =>
               /\ fetched = FetchOrder
               /\ lastFetch = "ok"
               /\ out = <<Line("clear", 0)>>)
        /\ ((dpc \in {"error", "sleep"} /\ lastFetch = "fail") =>
               /\ snap = <<>>
               /\ Len(errs) = (IF dpc = "sleep" THEN 1 ELSE 0)
               /\ out = <<Line("clear", 0)>> \o errs)
        /\ (dpc = "check" => fetched = <<>> /\ alerts = <<>> /\ out = <<>>)
        /\ (dpc = "health" => fetched = <<>> /\ alerts = <<>>)

C20_Witness ==
    /\ dpc = "sleep"
    /\ lastFetch = "fail"
    /\ fetched = <<"health", "metrics">>
    /\ out = <<Line("clear", 0), Line("error", 0)>>
    /\ ticksAfterStop = 0
    /\ mpc = "sleep"
    /\ phase = 2

====
